---- MODULE Spec2Model ----
(***************************************************************************)
(* The THERESE sidecar supervisor (src-tauri/src/lib.rs, commands.rs):     *)
(* zombie reaper, sidecar spawn, output relay task, exit handler and the   *)
(* shared state (BackendPort, SidecarState).                               *)
(*                                                                         *)
(* The operating system is part of the state: `procs` is the process table *)
(* (live processes only), `fs` the files the reaper looks at, `rx` the     *)
(* event channel of the spawned child.  `cmds` is the ordered trace of the *)
(* external commands and blocking calls the program has issued, `log` the  *)
(* content of sidecar.log, kept per writing thread (the order between the  *)
(* appends of two threads is not tracked).  `faults` names the calls that  *)
(* fail in the run.  The home directory is taken to resolve, the main      *)
(* window to exist and the log sink to accept every append.                *)
(***************************************************************************)
EXTENDS Integers, Sequences, FiniteSets, TLC

VARIABLES
    release,      \* cfg(not(debug_assertions)): the build launches the sidecar
    platform,     \* "unix" | "windows": which cfg branch is compiled
    pc,           \* position of the main thread
    procs,        \* process table: live pid -> [ppid, cmd, ignTerm, prot]
    pendingTerm,  \* pids with a delivered SIGTERM not yet acted upon
    found_pids,   \* the reaper's local Vec<u32> (windows)
    fs,           \* [lock, runtimeDir, entries]
    backendPort,  \* BackendPort(Mutex<u16>)
    slot,         \* SidecarState.child: <<>> (None) or <<pid>> (Some(child))
    held,         \* the exit handler's locals `child` and `pid`: <<>> or <<pid>>
    childArgs,    \* what the spawned child was given: <<>> or <<[port, env]>>
    rx,           \* events in flight on the child's channel
    produced,     \* every event sent on the channel so far, in order
    chanOpen,     \* some sender of the channel is still alive
    relay,        \* "none" | "running" | "ended"
    log,          \* sidecar.log: [main, relay], the appends of each writer in order
    cmds,         \* external commands / blocking calls issued, in order
    emitted,      \* events emitted to the main window, in order
    waited,       \* seconds the exit handler has spent in bounded waits
    exits,        \* RunEvent::Exit deliveries handled so far
    faults,       \* the environment failures of this run (which calls fail)
    childGone,    \* the child exited by itself and its exit has been processed
    conn,         \* the exit handler's TcpStream: "none" or how the peer behaves
    exitSaw       \* what the exit handler found: "none" | "empty" | "alive" | "dead"

vars == <<release, platform, pc, procs, pendingTerm, found_pids, fs, backendPort,
          slot, held, childArgs, rx, produced, chanOpen, relay, log, cmds,
          emitted, waited, exits, faults, childGone, conn, exitSaw>>

-----------------------------------------------------------------------------
(* Bounds of the model *)

\* old processes present when the application starts (reaper specification)
MaxOld == 2
\* old processes present when the application starts (lifecycle specification)
MaxStale == 1
\* output events the child's pipes produce
MaxEvents == 3
\* processes below the spawned child (worker, worker's child, ...)
MaxDepth == 2
\* deliveries of the exit event
MaxExits == 2

-----------------------------------------------------------------------------
(* Program constants *)

BACKEND_PORT == 17293
ConnectTimeoutSecs == 2
ReadTimeoutSecs == 2
ShutdownGraceSecs == 3
ReaperGraceSecs == 2
WinHandleWaitSecs == 3

\* the parent pid of a process without a live parent: pkill -P <pid> no longer
\* lists it
InitPid == 0

Self == MaxOld + 1
ChildPid == Self + 1

-----------------------------------------------------------------------------
(* Sequences *)

RECURSIVE SortedSeq(_)
SortedSeq(S) ==
    IF S = {} THEN <<>>
    ELSE LET m == CHOOSE x \in S : \A y \in S : x <= y
         IN <<m>> \o SortedSeq(S \ {m})

Range(s) == {s[i] : i \in 1..Len(s)}

RECURSIVE MapPids(_, _)
MapPids(op, pids) ==
    IF pids = <<>> THEN <<>>
    ELSE <<[op |-> op, arg |-> Head(pids)]>> \o MapPids(op, Tail(pids))

LogRec(tag, pid, text) == [tag |-> tag, pid |-> pid, text |-> text]

RECURSIVE LogPids(_, _)
LogPids(tag, pids) ==
    IF pids = <<>> THEN <<>>
    ELSE <<LogRec(tag, Head(pids), <<>>)>> \o LogPids(tag, Tail(pids))

Cmd(op) == [op |-> op, arg |-> 0]
CmdP(op, arg) == [op |-> op, arg |-> arg]

-----------------------------------------------------------------------------
(* The process table *)

BackendCmd == <<"backend", "--host", "127.0.0.1">>

ProcOfKind(kind, ppid) ==
    CASE kind = "backend"   -> [ppid |-> ppid, cmd |-> BackendCmd, ignTerm |-> FALSE, prot |-> FALSE]
      [] kind = "stubborn"  -> [ppid |-> ppid, cmd |-> BackendCmd, ignTerm |-> TRUE, prot |-> FALSE]
      [] kind = "foreign"   -> [ppid |-> ppid, cmd |-> BackendCmd, ignTerm |-> FALSE, prot |-> TRUE]
      [] kind = "lookalike" -> [ppid |-> ppid, cmd |-> <<"tail", "backend.log", "--host", "127.0.0.1">>,
                                ignTerm |-> FALSE, prot |-> FALSE]
      [] kind = "bare"      -> [ppid |-> ppid, cmd |-> <<"backend">>, ignTerm |-> FALSE, prot |-> FALSE]
      [] kind = "worker"    -> [ppid |-> ppid, cmd |-> <<"python">>, ignTerm |-> TRUE, prot |-> FALSE]
      [] kind = "app"       -> [ppid |-> ppid, cmd |-> <<"therese">>, ignTerm |-> FALSE, prot |-> FALSE]
      [] kind = "appargs"   -> [ppid |-> ppid, cmd |-> <<"therese", "backend.log", "--host", "127.0.0.1">>,
                                ignTerm |-> FALSE, prot |-> FALSE]

AllKinds == {"backend", "stubborn", "foreign", "lookalike", "bare", "worker"}
StaleKinds == {"stubborn"}
SelfKinds == {"app", "appargs"}

\* process i is a child of process i-1 or an orphan
ParentChoices(i) == IF i = 1 THEN {InitPid} ELSE {InitPid, i - 1}

Tables(kinds, max, selfKinds) ==
    UNION { { [p \in (1..n) \cup {Self} |->
                 IF p = Self THEN ProcOfKind(sk, InitPid)
                 ELSE ProcOfKind(k[p], par[p])] :
              k \in [1..n -> kinds],
              par \in { f \in [1..n -> 0..max] : \A i \in 1..n : f[i] \in ParentChoices(i) },
              sk \in selfKinds }
          : n \in 0..max }

Children(P, pid) == {q \in DOMAIN P : P[q].ppid = pid}

RECURSIVE Tree(_, _, _)
\* pid and everything below it by parent links, to the given depth
Tree(P, pid, depth) ==
    IF depth = 0 THEN {pid}
    ELSE {pid} \cup UNION {Tree(P, q, depth - 1) : q \in Children(P, pid)}

Remove(P, S) == [q \in DOMAIN P \ S |-> P[q]]

\* unix: once a process's exit has been processed its children belong to init;
\* windows keeps the stale parent pid
Settle(P, plat) ==
    IF plat = "windows" THEN P
    ELSE [q \in DOMAIN P |->
            IF P[q].ppid \in DOMAIN P \/ P[q].ppid = InitPid THEN P[q]
            ELSE [P[q] EXCEPT !.ppid = InitPid]]

HasBackend(tok) == tok \in {"backend", "backend.log"}

\* pgrep -f "backend.*--host.*127\.0\.0\.1": the pattern against the whole command line
PgrepPattern(cmd) ==
    \E i, j, k \in 1..Len(cmd) :
        i < j /\ j < k /\ HasBackend(cmd[i]) /\ cmd[j] = "--host" /\ cmd[k] = "127.0.0.1"

\* wmic ... where name='backend.exe' and commandline like '%--host%127.0.0.1%'
WmicFilter(cmd) ==
    /\ cmd[1] = "backend"
    /\ \E j, k \in 1..Len(cmd) : j < k /\ cmd[j] = "--host" /\ cmd[k] = "127.0.0.1"

\* tasklist /FI "IMAGENAME eq backend.exe"
TasklistFilter(cmd) == cmd[1] = "backend"

Pgrep(P) == {q \in DOMAIN P : PgrepPattern(P[q].cmd)}
Wmic(P) == {q \in DOMAIN P : WmicFilter(P[q].cmd)}
Tasklist(P) == {q \in DOMAIN P : TasklistFilter(P[q].cmd)}

\* the launch signature of the backend on the platform
Matches(P, plat) == IF plat = "unix" THEN Pgrep(P) ELSE Wmic(P)

\* kill -15 pid: delivered unless the process is not ours to signal
TermDelivered(P, pids) == {q \in pids \cap DOMAIN P : ~P[q].prot}

\* kill -9 pid / child.kill()
Kill9(P, pid) ==
    IF pid \in DOMAIN P /\ ~P[pid].prot THEN Remove(P, {pid}) ELSE P

\* pkill -9 -P pid: every process whose parent pid is pid.  `gone` says that the
\* exit of pid was already processed when pkill scanned, so that its children
\* were no longer listed under it.
PkillP(P, pid, gone) ==
    IF pid \notin DOMAIN P /\ gone THEN P
    ELSE Remove(P, {q \in Children(P, pid) : ~P[q].prot})

\* taskkill /T /F /PID pid: the tree below pid; fails when pid is not found
TaskkillTree(P, pid, gone) ==
    IF pid \notin DOMAIN P /\ gone THEN P
    ELSE IF pid \in DOMAIN P /\ P[pid].prot THEN P
    ELSE Remove(P, {q \in Tree(P, pid, MaxOld + MaxDepth + 1) \cap DOMAIN P : ~P[q].prot})

-----------------------------------------------------------------------------
(* Variable groups *)

buildVars == <<release, platform, faults>>
reaperVars == <<pendingTerm, found_pids>>
sharedVars == <<backendPort, slot>>
chanVars == <<rx, produced, chanOpen>>
exitVars == <<held, waited, exits, conn, exitSaw>>

AppendMain(l, recs) == [l EXCEPT !.main = l.main \o recs]
AppendRelay(l, recs) == [l EXCEPT !.relay = l.relay \o recs]

-----------------------------------------------------------------------------
(* The files the reaper looks at *)

MeiPrefix == <<"_", "M", "E", "I">>

StartsWith(s, p) == Len(s) >= Len(p) /\ SubSeq(s, 1, Len(p)) = p

MeiDir == [name |-> <<"_", "M", "E", "I", "1">>, isDir |-> TRUE]
MeiFile == [name |-> <<"_", "M", "E", "I", "2">>, isDir |-> FALSE]
ShortDir == [name |-> <<"_", "M", "E">>, isDir |-> TRUE]
ModDir == [name |-> <<"m", "o", "d">>, isDir |-> TRUE]

FsState(lock, dir, entries) == [lock |-> lock, runtimeDir |-> dir, entries |-> entries]

FsChoices ==
    { FsState(FALSE, FALSE, {}),
      FsState(FALSE, TRUE, {MeiFile, ShortDir, ModDir}),
      FsState(TRUE, TRUE, {}),
      FsState(TRUE, TRUE, {MeiDir}),
      FsState(FALSE, TRUE, {MeiDir, MeiFile, ShortDir, ModDir}),
      FsState(TRUE, TRUE, {MeiDir, MeiFile, ShortDir, ModDir}) }

FsStale == FsState(TRUE, TRUE, {MeiDir, MeiFile, ShortDir, ModDir})

\* variant: the prefix test without the directory test
StaleDirsAnyKind(f) == {e \in f.entries : StartsWith(e.name, MeiPrefix)}

\* the entries of the runtime directory the cleanup removes (line 189)
StaleDirs(f) == {e \in f.entries : StartsWith(e.name, MeiPrefix) /\ e.isDir}

RECURSIVE Repeat(_, _)
Repeat(x, n) == IF n = 0 THEN <<>> ELSE <<x>> \o Repeat(x, n - 1)

\* the calls that can fail in a run: the first and the second process scan,
\* a deletion, the listing of the runtime directory, its creation, child.wait()
ReaperFaults == {"scan1", "scan2", "rm", "ls"}
StartupFaults == ReaperFaults \cup {"mkdir"}
AllFaults == StartupFaults \cup {"wait"}
FaultPlans == {{}, AllFaults}

-----------------------------------------------------------------------------
(* kill_zombie_backends, unix *)

\* variant: the reaper returns as soon as the scan cannot be run
AfterScanFailureReturns == "setup_port"

\* where the reaper goes when the first pgrep could not be run (line 45)
AfterScanFailure == "artifacts"

\* variant: the grace period and the second scan whatever the first scan found
AfterFirstScanAlways(pids) == "reap_sleep"

\* line 63: if found { sleep, second scan } else straight to the artifacts
AfterFirstScan(pids) == IF pids = <<>> THEN "artifacts" ELSE "reap_sleep"

\* the pids of a pgrep output the loops act on: every line but the reaper's own pid
ScanTargets(P) == SortedSeq(Pgrep(P) \ {Self})

RECURSIVE ForceKillAll(_, _, _)
\* lines 74-87: kill -9 pid, then pkill -9 -P pid, for each pid of the re-scan
\* (T is the table after the iteration for the first pid)
ForceKillAll(P, pids, gone) ==
    IF pids = <<>> THEN P
    ELSE LET pid == Head(pids)
         IN CHOOSE R \in {ForceKillAll(T, Tail(pids), gone) :
                             T \in {PkillP(Kill9(P, pid), pid, pid \in gone)}} : TRUE

RECURSIVE ForceKillCmds(_)
ForceKillCmds(pids) ==
    IF pids = <<>> THEN <<>>
    ELSE <<CmdP("kill9", Head(pids)), CmdP("pkill9P", Head(pids))>> \o ForceKillCmds(Tail(pids))

ReaperUnchanged ==
    UNCHANGED <<buildVars, sharedVars, chanVars, exitVars, childArgs, relay, emitted, childGone>>

\* lines 37-63: first scan and the SIGTERM loop
ReaperScanUnix ==
    /\ pc = "reaper"
    /\ platform = "unix"
    /\ LET ok == "scan1" \notin faults
           pids == IF ok THEN ScanTargets(procs) ELSE <<>>
       IN /\ cmds' = cmds \o <<Cmd("pgrep")>> \o MapPids("kill15", pids)
          /\ log' = AppendMain(log, <<LogRec("search", 0, <<>>)>> \o LogPids("zombie_term", pids))
          /\ pendingTerm' = TermDelivered(procs, Range(pids))
          /\ pc' = IF ~ok THEN AfterScanFailure ELSE AfterFirstScan(pids)
    /\ UNCHANGED <<procs, found_pids, fs>>
    /\ ReaperUnchanged

\* line 64: the grace period; a process that honours SIGTERM is gone after it
ReaperSleepUnix ==
    /\ pc = "reap_sleep"
    /\ cmds' = cmds \o <<CmdP("sleep", ReaperGraceSecs)>>
    /\ procs' = Settle(Remove(procs, {q \in pendingTerm \cap DOMAIN procs : ~procs[q].ignTerm}), platform)
    /\ pendingTerm' = {}
    /\ pc' = "reap_rescan"
    /\ UNCHANGED <<found_pids, fs, log>>
    /\ ReaperUnchanged

\* lines 67-88: second scan and the SIGKILL loop
ReaperRescanUnix ==
    /\ pc = "reap_rescan"
    /\ LET ok == "scan2" \notin faults
           pids == IF ok THEN ScanTargets(procs) ELSE <<>>
       IN \E gone \in SUBSET Range(pids) :
            /\ cmds' = cmds \o <<Cmd("pgrep")>> \o ForceKillCmds(pids)
            /\ log' = AppendMain(log, LogPids("zombie_kill", pids))
            /\ procs' = Settle(ForceKillAll(procs, pids, gone), platform)
    /\ pc' = "artifacts"
    /\ UNCHANGED <<pendingTerm, found_pids, fs>>
    /\ ReaperUnchanged

-----------------------------------------------------------------------------
(* kill_zombie_backends, windows *)

RECURSIVE TaskkillAll(_, _)
\* lines 157-163: taskkill /T /F /PID pid for each found pid
TaskkillAll(P, pids) ==
    IF pids = <<>> THEN P
    ELSE CHOOSE R \in {TaskkillAll(T, Tail(pids)) :
                          T \in {TaskkillTree(P, Head(pids), TRUE)}} : TRUE

\* lines 95-125: first strategy, the command-line query
ReaperWmic ==
    /\ pc = "reaper"
    /\ platform = "windows"
    /\ LET ok == "scan1" \notin faults
           pids == IF ok THEN SortedSeq(Wmic(procs) \ {Self}) ELSE <<>>
       IN /\ found_pids' = pids
          /\ cmds' = cmds \o <<Cmd("wmic")>>
          /\ log' = AppendMain(log, <<LogRec("search", 0, <<>>)>>
                        \o (IF pids # <<>> THEN <<LogRec("wmic_found", Len(pids), <<>>)>> ELSE <<>>))
    /\ pc' = "win_fallback"
    /\ UNCHANGED <<procs, pendingTerm, fs>>
    /\ ReaperUnchanged

\* variant: the fallback strategy runs after the first one in every case
FallbackNeededAlways(found) == TRUE

\* the fallback strategy runs when the first one left found_pids empty (line 129)
FallbackNeeded(found) == found = <<>>

\* lines 127-154: second strategy, the image-name listing
ReaperTasklist ==
    /\ pc = "win_fallback"
    /\ IF FallbackNeeded(found_pids)
       THEN LET ok == "scan2" \notin faults
                pids == IF ok THEN SortedSeq(Tasklist(procs) \ {Self}) ELSE <<>>
            IN /\ found_pids' = found_pids \o pids
               /\ cmds' = cmds \o <<Cmd("tasklist")>>
               /\ log' = AppendMain(log, <<LogRec("fallback", 0, <<>>)>>
                             \o (IF pids # <<>> THEN <<LogRec("tasklist_found", Len(pids), <<>>)>> ELSE <<>>))
       ELSE UNCHANGED <<found_pids, cmds, log>>
    /\ pc' = "win_kill"
    /\ UNCHANGED <<procs, pendingTerm, fs>>
    /\ ReaperUnchanged

\* lines 156-169: kill every found pid with its tree, then wait for the handles
ReaperTaskkill ==
    /\ pc = "win_kill"
    /\ procs' = TaskkillAll(procs, found_pids)
    /\ cmds' = cmds \o MapPids("taskkill", found_pids)
                    \o (IF found_pids # <<>> THEN <<CmdP("sleep", WinHandleWaitSecs)>> ELSE <<>>)
    /\ log' = AppendMain(log, LogPids("zombie_win", found_pids)
                  \o (IF found_pids # <<>> THEN <<LogRec("wait_handles", 0, <<>>)>> ELSE <<>>))
    /\ pc' = "artifacts"
    /\ UNCHANGED <<pendingTerm, found_pids, fs>>
    /\ ReaperUnchanged

-----------------------------------------------------------------------------
(* kill_zombie_backends, both platforms: the stale artifacts (lines 172-199) *)

ReaperArtifacts ==
    /\ pc = "artifacts"
    /\ LET listed == fs.runtimeDir /\ "ls" \notin faults
           targets == IF listed THEN StaleDirs(fs) ELSE {}
           removed == "rm" \notin faults
       IN /\ fs' = [fs EXCEPT !.lock = fs.lock /\ ~removed,
                              !.entries = IF removed THEN fs.entries \ targets ELSE fs.entries]
          /\ cmds' = cmds \o <<Cmd("exists_lock")>>
                          \o (IF fs.lock THEN <<Cmd("remove_file")>> ELSE <<>>)
                          \o <<Cmd("exists_runtime")>>
                          \o (IF fs.runtimeDir THEN <<Cmd("read_dir")>> ELSE <<>>)
                          \o Repeat(Cmd("remove_dir_all"), Cardinality(targets))
          /\ log' = AppendMain(log, (IF fs.lock THEN <<LogRec("lock_cleanup", 0, <<>>)>> ELSE <<>>)
                        \o Repeat(LogRec("mei_cleanup", 0, <<>>), Cardinality(targets))
                        \o <<LogRec("reaper_done", 0, <<>>)>>)
    /\ found_pids' = <<>>
    /\ pc' = "setup_port"
    /\ UNCHANGED <<procs, pendingTerm>>
    /\ ReaperUnchanged

ReaperNext ==
    \/ ReaperScanUnix
    \/ ReaperSleepUnix
    \/ ReaperRescanUnix
    \/ ReaperWmic
    \/ ReaperTasklist
    \/ ReaperTaskkill
    \/ ReaperArtifacts

InitShared ==
    /\ pendingTerm = {}
    /\ found_pids = <<>>
    /\ backendPort = BACKEND_PORT
    /\ slot = <<>>
    /\ held = <<>>
    /\ childArgs = <<>>
    /\ rx = <<>>
    /\ produced = <<>>
    /\ chanOpen = FALSE
    /\ relay = "none"
    /\ log = [main |-> <<>>, relay |-> <<>>]
    /\ cmds = <<>>
    /\ emitted = <<>>
    /\ waited = 0
    /\ exits = 0
    /\ childGone = FALSE
    /\ conn = "none"
    /\ exitSaw = "none"

\* kill_zombie_backends called on a bounded choice of process tables and files
ReaperInit ==
    /\ release = TRUE
    /\ platform \in {"unix", "windows"}
    /\ faults \in SUBSET ReaperFaults
    /\ pc = "reaper"
    /\ procs \in Tables(AllKinds, MaxOld, SelfKinds)
    /\ fs \in FsChoices
    /\ InitShared

ReaperSpec == ReaperInit /\ [][ReaperNext]_vars

-----------------------------------------------------------------------------
(* Conversions *)

RECURSIVE U16ToString(_)
\* port.to_string(): the decimal digits, most significant first
U16ToString(n) ==
    IF n < 10 THEN <<n>> ELSE U16ToString(n \div 10) \o <<n % 10>>

RECURSIVE ParseU16(_)
\* what the child reads back from --port / THERESE_PORT
ParseU16(d) ==
    IF Len(d) = 1 THEN d[1]
    ELSE 10 * ParseU16(SubSeq(d, 1, Len(d) - 1)) + d[Len(d)]

Whitespace == {" ", "\n"}

\* String::from_utf8_lossy: an invalid byte becomes the replacement character
Lossy(bytes) == [i \in 1..Len(bytes) |-> IF bytes[i] = "0xFF" THEN "U+FFFD" ELSE bytes[i]]

RECURSIVE TrimStart(_)
TrimStart(t) == IF t # <<>> /\ Head(t) \in Whitespace THEN TrimStart(Tail(t)) ELSE t

RECURSIVE TrimEnd(_)
TrimEnd(t) ==
    IF t # <<>> /\ t[Len(t)] \in Whitespace THEN TrimEnd(SubSeq(t, 1, Len(t) - 1)) ELSE t

\* str::trim
Trim(t) == TrimEnd(TrimStart(t))

\* the lines the child writes, by position in its output
SampleLines == << <<"a", "\n">>, <<" ", "b", "\n">>, <<"c", "0xFF", "\n">>, <<"\n">> >>

LineAt(i) == SampleLines[((i - 1) % Len(SampleLines)) + 1]

\* the pipe each line comes from, by position in the child's output
SampleKinds == <<"Stdout", "Stderr">>

KindAt(i) == SampleKinds[((i - 1) % Len(SampleKinds)) + 1]

Event(kind, line) == [kind |-> kind, line |-> line]

Terminated == Event("Terminated", <<>>)

-----------------------------------------------------------------------------
(* run: the setup closure (lines 220-364) *)

\* lines 243-250: only a release build reaps and launches
SetupStart ==
    /\ pc = "setup"
    /\ pc' = IF release THEN "reaper" ELSE "running"
    /\ UNCHANGED <<buildVars, reaperVars, sharedVars, chanVars, exitVars, procs, fs,
                   childArgs, relay, log, cmds, emitted, childGone>>

\* line 252: the port of this run
ResolvePort == BACKEND_PORT

\* variant: the development port of the accessor's documentation is stored
PortToStoreDev(port) == 8000

\* line 257: what setup writes into BackendPort
PortToStore(port) == port

\* lines 252-273: store the port, create the runtime directory
SetupPort ==
    /\ pc = "setup_port"
    /\ backendPort' = PortToStore(ResolvePort)
    /\ fs' = [fs EXCEPT !.runtimeDir = fs.runtimeDir \/ "mkdir" \notin faults]
    /\ log' = AppendMain(log, <<LogRec("starting", ResolvePort, <<>>)>>)
    /\ cmds' = cmds \o <<Cmd("create_dir_all")>>
    /\ pc' = "setup_spawn"
    /\ UNCHANGED <<buildVars, reaperVars, chanVars, exitVars, procs, slot, childArgs,
                   relay, emitted, childGone>>

SpawnOutcomes == {"spawned", "not_found", "spawn_error"}

\* lines 292-293: the port as the child receives it
ChildArgsFor(port) == [port |-> U16ToString(port), env |-> U16ToString(port)]

\* the child and the processes it forks: a chain of `depth` workers below it
SpawnedProcs(P, depth) ==
    [q \in DOMAIN P \cup (ChildPid..(ChildPid + depth)) |->
        IF q = ChildPid THEN ProcOfKind("backend", Self)
        ELSE IF q > ChildPid THEN ProcOfKind("worker", q - 1)
        ELSE P[q]]

\* variant: the handle of the spawned child is not stored
StoreChildDropped(old, pid) == old

\* line 312: *state.child.lock().unwrap() = Some(child)
StoreChild(old, pid) == <<pid>>

\* variant: a failed start is only logged
FailureEventsNone(outcome) == <<>>

\* lines 342-359: the notifications of a failed start
FailureEvents(outcome) == <<[event |-> "sidecar-error", msg |-> outcome]>>

\* whether a relay task is started for the outcome (line 315)
RelayStarted(outcome) == outcome = "spawned"

\* the calls of the launch: sidecar("backend"), then spawn() when the binary resolved
SpawnCmds(outcome) ==
    IF outcome = "not_found" THEN <<Cmd("sidecar")>>
    ELSE <<Cmd("sidecar"), CmdP("spawn", IF outcome = "spawned" THEN ChildPid ELSE 0)>>

\* lines 288-360: resolve the sidecar binary, spawn it, store the handle, start the relay
SetupSpawn ==
    /\ pc = "setup_spawn"
    /\ \E outcome \in SpawnOutcomes :
         /\ cmds' = cmds \o SpawnCmds(outcome)
         /\ relay' = IF RelayStarted(outcome) THEN "running" ELSE relay
         /\ IF outcome = "spawned"
            THEN \E depth \in 0..MaxDepth :
                   /\ procs' = SpawnedProcs(procs, depth)
                   /\ childArgs' = <<ChildArgsFor(ResolvePort)>>
                   /\ slot' = StoreChild(slot, ChildPid)
                   /\ chanOpen' = TRUE
                   /\ log' = AppendMain(log, <<LogRec("started", ChildPid, <<>>)>>)
                   /\ UNCHANGED emitted
            ELSE /\ log' = AppendMain(log, <<LogRec(outcome, 0, <<>>)>>)
                 /\ emitted' = emitted \o FailureEvents(outcome)
                 /\ UNCHANGED <<procs, childArgs, slot, chanOpen>>
    /\ pc' = "running"
    /\ UNCHANGED <<buildVars, reaperVars, exitVars, fs, backendPort, rx, produced, childGone>>

-----------------------------------------------------------------------------
(* The spawned child and its event channel (tauri_plugin_shell) *)

Spawned == childArgs # <<>>
ChildAlive == ChildPid \in DOMAIN procs
WaitError == Event("Error", <<>>)
\* the wait thread has sent its event
WaitDone == \E i \in 1..Len(produced) : produced[i] \in {Terminated, WaitError}
OutputCount == Cardinality({i \in 1..Len(produced) : produced[i] \notin {Terminated, WaitError}})

EnvUnchanged ==
    UNCHANGED <<buildVars, reaperVars, sharedVars, exitVars, pc, fs, childArgs, relay, log,
                cmds, emitted>>

\* a pipe reader sends a line of the child's output on the channel
ChildEmit ==
    /\ chanOpen
    /\ OutputCount < MaxEvents
    /\ LET ev == Event(KindAt(OutputCount + 1), LineAt(OutputCount + 1))
       IN /\ rx' = Append(rx, ev)
          /\ produced' = Append(produced, ev)
    /\ UNCHANGED <<procs, chanOpen, childGone>>
    /\ EnvUnchanged

\* the child exits by itself (crash, or its own shutdown handling); its workers
\* end with it or stay behind
ChildExit ==
    /\ ChildAlive
    /\ \E S \in {{ChildPid}, ChildPid..(ChildPid + MaxDepth)} :
         procs' = Settle(Remove(procs, S), platform)
    /\ childGone' = TRUE
    /\ UNCHANGED <<rx, produced, chanOpen>>
    /\ EnvUnchanged

\* the wait thread: child.wait() returned; Terminated is sent, or Error when the
\* wait itself failed
WaitThread ==
    /\ Spawned
    /\ ~ChildAlive
    /\ ~WaitDone
    /\ LET ev == IF "wait" \in faults THEN WaitError ELSE Terminated
       IN /\ rx' = Append(rx, ev)
          /\ produced' = Append(produced, ev)
    /\ UNCHANGED <<procs, chanOpen, childGone>>
    /\ EnvUnchanged

\* the last sender is dropped
ChanClose ==
    /\ chanOpen
    /\ WaitDone
    /\ chanOpen' = FALSE
    /\ UNCHANGED <<procs, rx, produced, childGone>>
    /\ EnvUnchanged

-----------------------------------------------------------------------------
(* The output relay task (lines 315-340) *)

\* variant: the Terminated arm breaks without logging
RelayRecordQuietEnd(ev) ==
    CASE ev.kind = "Stdout" -> <<LogRec("stdout", 0, Trim(Lossy(ev.line)))>>
      [] ev.kind = "Stderr" -> <<LogRec("stderr", 0, Trim(Lossy(ev.line)))>>
      [] OTHER -> <<>>

\* what the relay writes to the log for an event
RelayRecord(ev) ==
    CASE ev.kind = "Stdout" -> <<LogRec("stdout", 0, Trim(Lossy(ev.line)))>>
      [] ev.kind = "Stderr" -> <<LogRec("stderr", 0, Trim(Lossy(ev.line)))>>
      [] ev.kind = "Terminated" -> <<LogRec("terminated", 0, <<>>)>>
      [] OTHER -> <<>>

\* the event rx.recv() hands to the loop
RelayNext(q) == Head(q)

\* the channel after that recv
RelayRest(q) == Tail(q)

\* variant: the Terminated arm without its break
RelayContinuesAlways(ev) == TRUE

\* line 335: the loop goes on after every event but Terminated
RelayContinues(ev) == ev.kind # "Terminated"

RelayUnchanged ==
    UNCHANGED <<buildVars, reaperVars, sharedVars, exitVars, pc, procs, fs, childArgs,
                produced, chanOpen, cmds, emitted, childGone>>

RelayRecv ==
    /\ relay = "running"
    /\ rx # <<>>
    /\ LET ev == RelayNext(rx)
       IN /\ log' = AppendRelay(log, RelayRecord(ev))
          /\ relay' = IF RelayContinues(ev) THEN "running" ELSE "ended"
    /\ rx' = RelayRest(rx)
    /\ RelayUnchanged

\* rx.recv() returns None: the channel is closed and empty
RelayClosed ==
    /\ relay = "running"
    /\ rx = <<>>
    /\ ~chanOpen
    /\ relay' = "ended"
    /\ UNCHANGED <<log, rx>>
    /\ RelayUnchanged

-----------------------------------------------------------------------------
(* commands.rs: get_backend_port *)

AppRunning == pc \in {"running", "sd_connect", "sd_request", "sd_grace", "sd_kill", "sd_orphan"}

\* line 33: *state.0.lock().unwrap()
get_backend_port(state) == state

\* the accessor reads the port and changes nothing
GetBackendPort ==
    /\ AppRunning
    /\ backendPort' = get_backend_port(backendPort)
    /\ UNCHANGED <<buildVars, reaperVars, chanVars, exitVars, pc, procs, fs, slot, childArgs,
                   relay, log, cmds, emitted, childGone>>

-----------------------------------------------------------------------------
(* run: the RunEvent::Exit handler (lines 373-433) *)

ExitUnchanged ==
    UNCHANGED <<buildVars, reaperVars, chanVars, fs, backendPort, childArgs, relay, emitted>>

\* variant: the handle is read and left in the slot
TakeChildPeek(s) == s

\* line 377: guard.take() leaves None in the slot
TakeChild(s) == <<>>

\* variant: the handler goes on to the connection attempt without a handle
AfterEmptyExitTearsDown(p) == "sd_connect"

\* line 377: `if let Some(child)` has no else: with an empty slot the handler is over
AfterEmptyExit(p) == IF p = "running" THEN "exited" ELSE p

\* lines 374-381: take the handle out of the slot; nothing to do without one
ExitEvent ==
    /\ pc \in {"running", "exited", "torn_down"}
    /\ exits < MaxExits
    /\ exits' = exits + 1
    /\ IF slot # <<>>
       THEN /\ held' = slot
            /\ slot' = TakeChild(slot)
            /\ log' = AppendMain(log, <<LogRec("stopping", slot[1], U16ToString(backendPort))>>)
            /\ exitSaw' = IF slot[1] \in DOMAIN procs THEN "alive" ELSE "dead"
            /\ pc' = "sd_connect"
       ELSE /\ pc' = AfterEmptyExit(pc)
            /\ exitSaw' = IF exitSaw = "none" THEN "empty" ELSE exitSaw
            /\ UNCHANGED <<held, slot, log>>
    /\ UNCHANGED <<procs, cmds, waited, childGone, conn>>
    /\ ExitUnchanged

\* something still accepts connections on the port: the child or a process below it
Listening == \E q \in ChildPid..(ChildPid + MaxDepth) : q \in DOMAIN procs

\* the outcomes of TcpStream::connect_timeout (line 387)
ConnectOutcomes(listening) ==
    IF listening THEN {"answers", "silent", "resets", "refused", "timeout"}
    ELSE {"refused", "timeout"}

Connected(c) == c \in {"answers", "silent", "resets"}

\* seconds connect_timeout can take (line 389)
ConnectWait(c) == IF c = "timeout" THEN ConnectTimeoutSecs ELSE 0

\* variant: a failed connect goes straight to the forced kill
AfterConnectFailureSkipsGrace == "sd_kill"

\* where the handler goes after a failed connect (lines 403-405)
AfterConnectFailure == "sd_grace"

\* step 1, lines 383-390 and 403-405: the connection attempt
ShutdownConnect ==
    /\ pc = "sd_connect"
    /\ \E c \in ConnectOutcomes(Listening) :
         /\ cmds' = cmds \o <<CmdP("connect", backendPort)>>
         /\ waited' = waited + ConnectWait(c)
         /\ IF Connected(c)
            THEN /\ conn' = c
                 /\ pc' = "sd_request"
                 /\ UNCHANGED log
            ELSE /\ conn' = "none"
                 /\ pc' = AfterConnectFailure
                 /\ log' = AppendMain(log, <<LogRec("unreachable", 0, <<>>)>>)
    /\ UNCHANGED <<procs, slot, held, exits, childGone, exitSaw>>
    /\ ExitUnchanged

\* variant: the read without its timeout blocks on a peer that never answers
ReadReturnsUnbounded(peer) == peer # "silent"

\* whether the read of line 401 returns for a peer of the given behaviour:
\* set_read_timeout (line 397) bounds it
ReadReturns(peer) == TRUE

\* seconds the read can take (line 398)
ReadWait(peer) == IF peer = "silent" THEN ReadTimeoutSecs ELSE 0

\* step 1, lines 391-402: the request and the bounded read of the answer
ShutdownRequest ==
    /\ pc = "sd_request"
    /\ ReadReturns(conn)
    /\ cmds' = cmds \o <<Cmd("write_all"), Cmd("read")>>
    /\ waited' = waited + ReadWait(conn)
    /\ log' = AppendMain(log, <<LogRec("http_sent", 0, <<>>)>>)
    /\ conn' = "none"
    /\ pc' = "sd_grace"
    /\ UNCHANGED <<procs, slot, held, exits, childGone, exitSaw>>
    /\ ExitUnchanged

\* step 2, line 408: the grace period
ShutdownGrace ==
    /\ pc = "sd_grace"
    /\ cmds' = cmds \o <<CmdP("sleep", ShutdownGraceSecs)>>
    /\ waited' = waited + ShutdownGraceSecs
    /\ pc' = "sd_kill"
    /\ UNCHANGED <<procs, slot, held, exits, log, childGone, conn, exitSaw>>
    /\ ExitUnchanged

\* what child.kill() returns
KillResults(alive) == IF alive THEN {"Ok"} ELSE {"Ok", "Err"}

\* variant: the result of child.kill() is propagated instead of dropped
AfterKillPropagates(result) == IF result = "Ok" THEN "sd_orphan" ELSE "aborted"

\* line 411: let _ = child.kill(): the result is dropped
AfterKill(result) == "sd_orphan"

\* step 3, lines 410-412: the forced kill of the direct child
ShutdownKill ==
    /\ pc = "sd_kill"
    /\ \E result \in KillResults(held[1] \in DOMAIN procs) :
         pc' = AfterKill(result)
    /\ procs' = Kill9(procs, held[1])
    /\ cmds' = cmds \o <<CmdP("child.kill", held[1])>>
    /\ log' = AppendMain(log, <<LogRec("force_kill", 0, <<>>)>>)
    /\ UNCHANGED <<slot, held, exits, waited, childGone, conn, exitSaw>>
    /\ ExitUnchanged

\* lines 417-428: the orphan cleanup command of the platform
OrphanCleanup(P, plat, pid, gone) ==
    IF plat = "unix" THEN PkillP(P, pid, gone) ELSE TaskkillTree(P, pid, gone)

OrphanCmd(plat) == IF plat = "unix" THEN "pkill9P" ELSE "taskkill"

\* step 4, lines 414-431: orphan cleanup; the handle is dropped at the end of the block
ShutdownOrphans ==
    /\ pc = "sd_orphan"
    /\ \E gone \in (IF childGone THEN {TRUE} ELSE BOOLEAN) :
         procs' = Settle(OrphanCleanup(procs, platform, held[1], gone), platform)
    /\ cmds' = cmds \o <<CmdP(OrphanCmd(platform), held[1])>>
    /\ log' = AppendMain(log, <<LogRec("cleanup_done", 0, <<>>)>>)
    /\ held' = <<>>
    /\ pc' = "torn_down"
    /\ UNCHANGED <<slot, exits, waited, childGone, conn, exitSaw>>
    /\ ExitUnchanged

ShutdownStep ==
    \/ ShutdownConnect
    \/ ShutdownRequest
    \/ ShutdownGrace
    \/ ShutdownKill
    \/ ShutdownOrphans

-----------------------------------------------------------------------------
(* The supervisor *)

\* the application starts: a release build on either platform, a run without
\* failures or with every failure, stubborn zombies of an earlier run, stale files
Init ==
    /\ release = TRUE
    /\ platform \in {"unix", "windows"}
    /\ faults \in FaultPlans
    /\ pc = "setup"
    /\ procs \in Tables(StaleKinds, MaxStale, {"app"})
    /\ fs = FsStale
    /\ InitShared

Next ==
    \/ SetupStart
    \/ ReaperScanUnix
    \/ ReaperSleepUnix
    \/ ReaperRescanUnix
    \/ ReaperWmic
    \/ ReaperTasklist
    \/ ReaperTaskkill
    \/ ReaperArtifacts
    \/ SetupPort
    \/ SetupSpawn
    \/ ChildEmit
    \/ ChildExit
    \/ WaitThread
    \/ ChanClose
    \/ RelayRecv
    \/ RelayClosed
    \/ GetBackendPort
    \/ ExitEvent
    \/ ShutdownConnect
    \/ ShutdownRequest
    \/ ShutdownGrace
    \/ ShutdownKill
    \/ ShutdownOrphans

Spec == Init /\ [][Next]_vars

\* the starts that find exactly one zombie of an earlier run
OneZombieInit == Init /\ Cardinality(DOMAIN procs) = 2

\* the exit handler runs on the main thread and is never cancelled
FairSpec == OneZombieInit /\ [][Next]_vars /\ WF_vars(ShutdownStep)

\* no failure, one failing call, every failing call
StartupFaultPlans == {{}, StartupFaults} \cup {{f} : f \in StartupFaults}

\* either build of the application, started with one zombie of an earlier run
BuildInit ==
    /\ release \in BOOLEAN
    /\ platform \in {"unix", "windows"}
    /\ faults \in FaultPlans
    /\ pc = "setup"
    /\ procs \in {T \in Tables(StaleKinds, MaxStale, {"app"}) : Cardinality(DOMAIN T) = 2}
    /\ fs = FsStale
    /\ InitShared

BuildSpec == BuildInit /\ [][Next]_vars

\* the setup closure alone, on a wider choice of process tables, files and failures
StartupInit ==
    /\ release = TRUE
    /\ platform \in {"unix", "windows"}
    /\ faults \in StartupFaultPlans
    /\ pc = "setup"
    /\ procs \in Tables(AllKinds, MaxStale, {"app"})
    /\ fs \in FsChoices
    /\ InitShared

StartupNext ==
    \/ SetupStart
    \/ ReaperScanUnix
    \/ ReaperSleepUnix
    \/ ReaperRescanUnix
    \/ ReaperWmic
    \/ ReaperTasklist
    \/ ReaperTaskkill
    \/ ReaperArtifacts
    \/ SetupPort
    \/ SetupSpawn

StartupSpec == StartupInit /\ [][StartupNext]_vars


-----------------------------------------------------------------------------
(* Properties *)

StartupPcs == {"setup", "reaper", "reap_sleep", "reap_rescan", "win_fallback", "win_kill",
               "artifacts", "setup_port", "setup_spawn"}
ShutdownPcs == {"sd_connect", "sd_request", "sd_grace", "sd_kill", "sd_orphan"}

Count(s, Test(_)) == Cardinality({i \in 1..Len(s) : Test(s[i])})

IndexOf(s, op) ==
    LET I == {i \in 1..Len(s) : s[i].op = op}
    IN IF I = {} THEN 0 ELSE CHOOSE i \in I : \A j \in I : i <= j

\* the calls of the exit handler: cmds from the connection attempt on
ShutdownCmds ==
    IF IndexOf(cmds, "connect") = 0 THEN <<>>
    ELSE SubSeq(cmds, IndexOf(cmds, "connect"), Len(cmds))

IsRequestCmd(c) == c.op \in {"write_all", "read"}
IsStepCmd(c) == ~IsRequestCmd(c)

\* one call per shutdown step: the request and the read belong to step 1
StepCmds == SelectSeq(ShutdownCmds, IsStepCmd)

FourSteps ==
    <<CmdP("connect", BACKEND_PORT), CmdP("sleep", ShutdownGraceSecs),
      CmdP("child.kill", ChildPid), CmdP(OrphanCmd(platform), ChildPid)>>

StepsDone ==
    CASE pc \in {"sd_request", "sd_grace"} -> 1
      [] pc = "sd_kill" -> 2
      [] pc = "sd_orphan" -> 3
      [] pc = "torn_down" -> 4
      [] OTHER -> 0

MaxShutdownWait == ConnectTimeoutSecs + ReadTimeoutSecs + ShutdownGraceSecs

HasLog(tag) == \E i \in 1..Len(log.main) : log.main[i].tag = tag

\* C1: in every reachable state the slot and the exit handler together hold at
\* most one handle, it is the handle of the one child that was spawned, and no
\* second successful spawn ever happens
C1_AtMostOneHandle ==
    /\ Len(slot) + Len(held) <= 1
    /\ Range(slot) \cup Range(held) \subseteq {ChildPid}
    /\ (slot # <<>> \/ held # <<>>) => Spawned
    /\ Cardinality({i \in 1..Len(cmds) : cmds[i] = CmdP("spawn", ChildPid)}) <= 1

\* the exit handler owns the handle of the live child and the slot is empty
C1_Witness == held = <<ChildPid>> /\ slot = <<>> /\ pc = "sd_kill" /\ ChildAlive

\* C2: once the exit handler has taken the handle, its calls are, in this order
\* and once each, the connection attempt (with the request and the read right
\* after it when it succeeded), the grace sleep, child.kill() and the orphan
\* cleanup command; how far the sequence has got depends on the position of the
\* handler alone, not on the outcome of an earlier step
C2_StepsInOrder ==
    /\ StepCmds = SubSeq(FourSteps, 1, StepsDone)
    /\ \A i \in 1..Len(ShutdownCmds) : IsRequestCmd(ShutdownCmds[i]) => i \in 2..3
    /\ pc = "sd_request" => Len(ShutdownCmds) = 1

\* the sequence is complete after a connection attempt that failed
C2_Witness ==
    /\ pc = "torn_down"
    /\ HasLog("unreachable")
    /\ ShutdownCmds = FourSteps

\* C3: the waits of the exit handler never add up to more than the three fixed
\* timeouts, and a shutdown sequence that has started always reaches torn_down,
\* whatever the peer does (refuses, times out, accepts and stays silent)
C3_ShutdownTerminates ==
    /\ [](waited <= MaxShutdownWait)
    /\ (pc \in ShutdownPcs) ~> (pc = "torn_down")

\* torn down after a peer that accepted the connection and never answered
C3_Witness ==
    /\ pc = "torn_down"
    /\ HasLog("http_sent")
    /\ waited = ReadTimeoutSecs + ShutdownGraceSecs

\* C4: once the exit handler is through with a child that was alive when the
\* application exited, in a run where no call failed, neither the child nor
\* any process below it is alive
C4_NoSurvivor ==
    (pc = "torn_down" /\ faults = {} /\ exitSaw = "alive") => \A q \in ChildPid..(ChildPid + MaxDepth) : q \notin DOMAIN procs

\* C5: when the exit handler finds a handle whose process has already exited,
\* it goes through all four steps: it is never stopped by an error, each step is
\* enabled in turn, the waits stay within the fixed timeouts, and at the end
\* the four calls have been made and the completion is logged
C5_DeadChildShutdown ==
    exitSaw = "dead" =>
        /\ pc \in ShutdownPcs \cup {"torn_down"}
        /\ waited <= MaxShutdownWait
        /\ pc \in ShutdownPcs => ENABLED ShutdownStep
        /\ pc = "torn_down" =>
              /\ StepCmds = FourSteps
              /\ log.main[Len(log.main)].tag = "cleanup_done"
              /\ emitted = <<>>

\* the sequence is through for a child that was dead at exit, after a kill that failed
C5_Witness ==
    /\ exitSaw = "dead"
    /\ pc = "torn_down"
    /\ HasLog("unreachable")
    /\ childGone

NoFaultNoProt == faults = {} /\ \A q \in DOMAIN procs : ~procs[q].prot

\* the step of the reaper that signals what the scan found
SignalPc == IF platform = "unix" THEN "reaper" ELSE "win_kill"

\* C6: with every command working and every process ours to signal, the reaper
\* signals each matching process but itself, the force-kill pass leaves neither
\* a process of the second scan nor a child of one alive, and no matching
\* process but the reaper's own is alive when the reaper returns
C6_ReaperKillsAll ==
    /\ [][(pc = SignalPc /\ NoFaultNoProt) =>
            \A q \in Matches(procs, platform) \ {Self} :
                \E i \in 1..Len(cmds') :
                    cmds'[i] \in {CmdP("kill15", q), CmdP("taskkill", q)}]_vars
    /\ [][(pc = "reap_rescan" /\ NoFaultNoProt) =>
            \A q \in Range(ScanTargets(procs)) :
                Tree(procs, q, 1) \cap DOMAIN procs' = {}]_vars
    /\ []((pc = "setup_port" /\ NoFaultNoProt) => Matches(procs, platform) \ {Self} = {})

RECURSIVE UpToTerminated(_)
\* the events up to and including the first Terminated
UpToTerminated(evs) ==
    IF evs = <<>> THEN <<>>
    ELSE IF Head(evs) = Terminated THEN <<Terminated>>
    ELSE <<Head(evs)>> \o UpToTerminated(Tail(evs))

RECURSIVE Records(_)
Records(evs) == IF evs = <<>> THEN <<>> ELSE RelayRecord(Head(evs)) \o Records(Tail(evs))

\* the events the relay has taken off the channel
Consumed == SubSeq(produced, 1, Len(produced) - Len(rx))

\* C7: the relay's part of the log is, record for record and in the order the
\* events were sent, the events it has taken off the channel; it takes nothing
\* after Terminated and has ended once it has taken Terminated
C7_RelayInOrder ==
    /\ produced = Consumed \o rx
    /\ log.relay = Records(Consumed)
    /\ Consumed = UpToTerminated(Consumed)
    /\ (Consumed # <<>> /\ Consumed[Len(Consumed)] = Terminated) => relay = "ended"

\* stdout a, stderr b, stdout c, Terminated: four records in that order
C7_Witness ==
    /\ Len(produced) = 4
    /\ produced[1].kind = "Stdout" /\ produced[2].kind = "Stderr"
    /\ produced[3].kind = "Stdout" /\ produced[4] = Terminated
    /\ rx = <<>>
    /\ relay = "ended"
    /\ log.relay = <<LogRec("stdout", 0, <<"a">>), LogRec("stderr", 0, <<"b">>),
                     LogRec("stdout", 0, <<"c", "U+FFFD">>), LogRec("terminated", 0, <<>>)>>

\* C8: the stored port is the constant in every state, what the accessor
\* returns is what the child reads back from --port and from THERESE_PORT, and a
\* step that changed the stored port could only be the store of the setup
C8_PortStable ==
    /\ [](/\ backendPort = BACKEND_PORT
          /\ Spawned =>
                /\ ParseU16(childArgs[1].port) = get_backend_port(backendPort)
                /\ ParseU16(childArgs[1].env) = get_backend_port(backendPort))
    /\ [][backendPort' # backendPort => pc = "setup_port"]_vars

\* the exit handler is through and the port is still the one the child was given
C8_Witness ==
    /\ pc = "torn_down"
    /\ Spawned
    /\ ParseU16(childArgs[1].port) = backendPort

StartFailed == HasLog("not_found") \/ HasLog("spawn_error")

IsSearch(r) == r.tag = "search"
IsReaperDone(r) == r.tag = "reaper_done"
IsExistsLock(c) == c.op = "exists_lock"
IsSidecar(c) == c.op = "sidecar"

\* C10: the reaper is entered once and returns once before the launch: the
\* setup never stops before the launch whatever fails, the artifact cleanup is
\* attempted exactly once and before the sidecar is resolved, and the sidecar
\* is resolved exactly once by the time the setup is over
C10_ReaperNeverBlocks ==
    /\ pc \in StartupPcs \cup {"running"}
    /\ pc \in StartupPcs => ENABLED StartupNext
    /\ Count(log.main, IsSearch) = (IF pc \in {"setup", "reaper"} THEN 0 ELSE 1)
    /\ Count(log.main, IsReaperDone) = (IF pc \in {"setup_port", "setup_spawn", "running"} THEN 1 ELSE 0)
    /\ Count(cmds, IsExistsLock) = Count(log.main, IsReaperDone)
    /\ Count(cmds, IsSidecar) = (IF pc = "running" THEN 1 ELSE 0)

\* the launch was attempted after a reaper whose scans and deletions all failed
C10_Witness ==
    /\ pc = "running"
    /\ {"scan1", "scan2", "rm", "ls"} \subseteq faults
    /\ fs.lock
    /\ IndexOf(cmds, "exists_lock") > 0
    /\ IndexOf(cmds, "exists_lock") < IndexOf(cmds, "sidecar")

\* the launch signature: the executable is the backend and its arguments carry
\* the host flag and then the loopback address
LaunchSignature(c) ==
    /\ c[1] = "backend"
    /\ \E i \in 2..Len(c) : \E j \in 2..Len(c) : i < j /\ c[i] = "--host" /\ c[j] = "127.0.0.1"

IsSignalOp(c) == c.op \in {"kill15", "kill9", "taskkill"}

\* the calls a step adds to cmds
NewCmds == SubSeq(cmds', Len(cmds) + 1, Len(cmds'))

\* C11: every process the reaper sends a signal to or kills by pid is another
\* process than the reaper's own and carries the launch signature both in its
\* executable name and in its arguments
C11_OnlyLaunchSignature ==
    [][\A i \in 1..Len(NewCmds) :
           IsSignalOp(NewCmds[i]) =>
               /\ NewCmds[i].arg # Self
               /\ NewCmds[i].arg \in DOMAIN procs
               /\ LaunchSignature(procs[NewCmds[i].arg].cmd)]_vars


\* in the calls s, the i-th one was preceded by the cooperative signal to pid q,
\* then by the grace period, then by a scan
Escalated(s, i, q) ==
    \E a \in 1..i : \E b \in 1..i : \E c \in 1..i :
        /\ a < b /\ b < c /\ c < i
        /\ s[a] = CmdP("kill15", q)
        /\ s[b] = CmdP("sleep", ReaperGraceSecs)
        /\ s[c].op \in {"pgrep", "wmic", "tasklist"}

\* C12: a process with the launch signature is force-killed by the reaper only
\* after it was sent the cooperative signal, the grace period elapsed and a
\* second scan ran, in that order
C12_TwoStages ==
    [][\A i \in Len(cmds) + 1..Len(cmds') :
           /\ cmds'[i].op \in {"kill9", "taskkill"}
           /\ cmds'[i].arg \in DOMAIN procs
           /\ LaunchSignature(procs[cmds'[i].arg].cmd)
           => Escalated(cmds', i, cmds'[i].arg)]_vars

Last(s) == s[Len(s)]

\* the relay took Terminated off the channel last and its last record says so
EndedOnTerminated ==
    /\ Consumed # <<>> /\ Last(Consumed) = Terminated
    /\ log.relay # <<>> /\ Last(log.relay) = LogRec("terminated", 0, <<>>)

\* the relay found the channel closed and empty and never saw Terminated
EndedOnClose ==
    /\ ~chanOpen /\ rx = <<>>
    /\ Terminated \notin Range(produced)

\* C13 as stated: the relay has ended only if the last thing it did was to
\* receive and log Terminated
C13_OnlyAfterTerminated ==
    relay = "ended" => EndedOnTerminated

\* C13, amended: the relay has ended only if it received and logged Terminated
\* last, or if the channel was closed and drained without a Terminated; while
\* it runs it has not taken Terminated
C13_RelayEnds ==
    /\ relay = "ended" => EndedOnTerminated \/ EndedOnClose
    /\ relay = "running" => Terminated \notin Range(Consumed)

\* the wait on the child failed: the relay took the Error event, logged nothing
\* for it and ended when the channel closed
C13_Witness ==
    /\ relay = "ended"
    /\ produced # <<>> /\ Last(produced) = WaitError
    /\ EndedOnClose
    /\ \A i \in 1..Len(log.relay) : log.relay[i].tag # "terminated"

\* how many of the calls s are the call c
Calls(s, c) == Cardinality({i \in 1..Len(s) : s[i] = c})

Stoppings == Cardinality({i \in 1..Len(log.main) : log.main[i].tag = "stopping"})

\* C14: from the first exit event on the slot is empty; the handle is taken
\* once, and the connection attempt, the request, the grace sleep, the kill and
\* the orphan cleanup are each done at most once; an exit event delivered after
\* the first one changes nothing but the count of deliveries
C14_TornDownOnce ==
    /\ [](exits >= 1 => slot = <<>>)
    /\ [](/\ Stoppings <= 1
          /\ Calls(ShutdownCmds, CmdP("connect", BACKEND_PORT)) <= 1
          /\ Calls(ShutdownCmds, Cmd("write_all")) <= 1
          /\ Calls(ShutdownCmds, CmdP("sleep", ShutdownGraceSecs)) <= 1
          /\ Calls(ShutdownCmds, CmdP("child.kill", ChildPid)) <= 1
          /\ Calls(ShutdownCmds, CmdP(OrphanCmd(platform), ChildPid)) <= 1)
    /\ [][exits >= 1 /\ exits' = exits + 1 =>
              UNCHANGED <<pc, slot, held, cmds, procs, log, waited, backendPort>>]_vars

\* a second exit event was delivered after a teardown that ran every step once
C14_Witness ==
    /\ exits = 2
    /\ pc = "torn_down"
    /\ Stoppings = 1
    /\ StepCmds = FourSteps
    /\ slot = <<>> /\ held = <<>>

\* an entry of the runtime directory the cleanup is meant for: a directory
\* whose name starts with _MEI
IsArtifact(e) == e.isDir /\ Len(e.name) >= 4 /\ SubSeq(e.name, 1, 4) = <<"_", "M", "E", "I">>

Artifacts(f) == IF f.runtimeDir THEN {e \in f.entries : IsArtifact(e)} ELSE {}

NoArtifact(f) == ~f.lock /\ Artifacts(f) = {}

IsRemoveOp(c) == c.op \in {"remove_file", "remove_dir_all"}

\* C15: the file system is touched by the artifact cleanup only; the cleanup
\* always returns; it removes nothing but the lock file and the _MEI*
\* directories of the runtime directory, all of them when no call fails; with
\* no lock file and no such directory it issues no deletion and leaves the
\* file system as it was
C15_CleanupFrame ==
    [][/\ pc # "artifacts" => fs' = fs
       /\ pc = "artifacts" =>
            /\ pc' = "setup_port"
            /\ fs'.runtimeDir = fs.runtimeDir
            /\ fs'.entries \subseteq fs.entries
            /\ fs.entries \ fs'.entries \subseteq Artifacts(fs)
            /\ fs'.lock => fs.lock
            /\ faults \cap {"rm", "ls"} = {} => NoArtifact(fs')
            /\ NoArtifact(fs) =>
                 /\ fs' = fs
                 /\ \A i \in 1..Len(NewCmds) : ~IsRemoveOp(NewCmds[i])]_vars

\* the cleanup returned on a runtime directory that holds a file named _MEI2, a
\* directory _ME and another directory, and no lock file: nothing was deleted
C15_Witness ==
    /\ pc = "setup_port"
    /\ faults = {}
    /\ fs = FsState(FALSE, TRUE, {MeiFile, ShortDir, ModDir})
    /\ IndexOf(cmds, "read_dir") > 0
    /\ \A i \in 1..Len(cmds) : ~IsRemoveOp(cmds[i])

\* the port the documentation of get_backend_port gives for a debug build
DevPort == 8000

\* C16: once the setup is over, get_backend_port returns the development port
\* in a debug build, where no sidecar is launched, and in a release build the
\* port the sidecar was given
C16_PortByBuild ==
    pc \notin StartupPcs =>
        /\ ~release => ~Spawned /\ get_backend_port(backendPort) = DevPort
        /\ release /\ Spawned => get_backend_port(backendPort) = ParseU16(childArgs[1].port)

\* the store of the spawn path (line 312)
SpawnStore ==
    /\ pc = "setup_spawn" /\ pc' = "running"
    /\ exits = 0
    /\ slot = <<>> /\ slot' = <<ChildPid>>

\* the take of the exit handler (line 377)
ExitTake ==
    /\ pc = "running"
    /\ exits' = exits + 1
    /\ slot' = <<>> /\ held' = slot

\* C17: the slot is written by the store of the spawn path and by the take of
\* the exit handler only; no exit event is handled before the setup is over; a
\* handle that was stored is in the slot until the first exit event, which
\* takes it, and nothing is stored once an exit event was handled
C17_TwoWriters ==
    /\ [][slot' # slot => SpawnStore \/ ExitTake]_vars
    /\ [](pc \in StartupPcs => exits = 0 /\ held = <<>>)
    /\ [](Spawned /\ exits = 0 => slot = <<ChildPid>>)
    /\ [](Spawned /\ exits > 0 => slot = <<>> /\ Stoppings = 1)

\* the first exit event has just taken the handle the setup stored
C17_Witness ==
    /\ pc = "sd_connect"
    /\ exits = 1
    /\ held = <<ChildPid>> /\ slot = <<>>
    /\ IndexOf(cmds, "spawn") > 0

IsReapOp(c) == c.op \in {"kill15", "kill9", "pkill9P", "taskkill", "sleep"}

\* C18: when the scan lists no process but the reaper itself, the reaper goes
\* from the scan straight to the artifact cleanup: no signal, no grace period,
\* no second scan, no process touched (unix: the pgrep output; windows: the
\* pids the two strategies collected); the cleanup that follows is always able
\* to run and starts with the test of the lock file
C18_NothingFound ==
    /\ [][pc = "reaper" /\ platform = "unix" /\ Pgrep(procs) \ {Self} = {} =>
              /\ pc' = "artifacts"
              /\ cmds' = cmds \o <<Cmd("pgrep")>>
              /\ procs' = procs]_vars
    /\ [](pc = "win_kill" /\ found_pids = <<>> => \A i \in 1..Len(cmds) : ~IsReapOp(cmds[i]))
    /\ [][pc = "win_kill" /\ found_pids = <<>> =>
              /\ pc' = "artifacts"
              /\ cmds' = cmds
              /\ procs' = procs]_vars
    /\ [](pc = "artifacts" => ENABLED ReaperArtifacts)
    /\ [][pc = "artifacts" => pc' = "setup_port" /\ NewCmds[1] = Cmd("exists_lock")]_vars

\* the reaper returned on unix after one scan that listed nothing, with other
\* processes running, and its next call after the scan was the lock file test
C18_Witness ==
    /\ pc = "setup_port"
    /\ platform = "unix"
    /\ faults = {}
    /\ Cardinality(DOMAIN procs) = MaxOld + 1
    /\ cmds[1] = Cmd("pgrep") /\ cmds[2] = Cmd("exists_lock")
    /\ \A i \in 1..Len(cmds) : ~IsReapOp(cmds[i])

\* the pids the taskkill calls of a sequence of calls name, in order
TaskkillTargets(s) ==
    LET T == SelectSeq(s, LAMBDA c : c.op = "taskkill")
    IN [i \in 1..Len(T) |-> T[i].arg]

C20_EmptySlotExit ==
    /\ [][exits' = exits + 1 /\ slot = <<>> =>
              /\ UNCHANGED <<slot, backendPort, held, cmds, procs, waited, conn, log>>
              /\ pc' \in {"exited", "torn_down"}]_vars
    /\ [](~Spawned /\ pc \notin StartupPcs =>
              /\ pc \in {"running", "exited"}
              /\ slot = <<>> /\ held = <<>>
              /\ backendPort = BACKEND_PORT
              /\ ShutdownCmds = <<>>
              /\ waited = 0
              /\ \A i \in 1..Len(cmds) : cmds[i].arg # ChildPid)
    /\ [](~release /\ pc \notin StartupPcs => ~Spawned /\ cmds = <<>>)

\* the application was closed after a spawn that failed
C20_Witness ==
    /\ release
    /\ pc = "exited"
    /\ exits = 1
    /\ HasLog("spawn_error")
    /\ slot = <<>>
    /\ ShutdownCmds = <<>>
====
